---- MODULE Spec2Model ----
(***************************************************************************)
(* The two Freebox reconcilers, plugins/modules/dhcp.py (static DHCP       *)
(* leases) and plugins/modules/nat.py (port forwardings).  One behaviour   *)
(* is a set of invocations of ONE of the two modules against one device.   *)
(* An invocation is run_module(): it calls configure_static_dhcp() or      *)
(* configure_nat(), which opens the device session, lists the rules,       *)
(* scans them for the desired rule and creates the rule when the scan      *)
(* finds nothing.  The awaits (open, list, create) are the points where    *)
(* invocations interleave; the code between two awaits is one step.        *)
(*                                                                         *)
(* Python str values are sequences of one-character strings, so that       *)
(* str.upper() and the f-strings are computed; a message is the sequence   *)
(* of its pieces.                                                          *)
(***************************************************************************)
EXTENDS Integers, Sequences, FiniteSets, TLC

\* ------------------------------------------------------------- bounds
\* Longest rule list the device holds before the first invocation.
MaxRemote == 1

\* The concurrent invocations (one OS process each, asyncio.run(run_module())).
Procs == {"p1", "p2"}

\* ------------------------------------------------------------- strings
\* str.upper() on one character of the alphabet the model uses.
UpperChar(c) ==
    CASE c = "a" -> "A"
      [] c = "b" -> "B"
      [] c = "c" -> "C"
      [] c = "d" -> "D"
      [] c = "p" -> "P"
      [] c = "t" -> "T"
      [] c = "u" -> "U"
      [] OTHER -> c

\* str.upper(): character by character.
Upper(s) == [i \in DOMAIN s |-> UpperChar(s[i])]

\* str(n) for a non-negative int, in decimal.
Digit(n) ==
    CASE n = 0 -> "0" [] n = 1 -> "1" [] n = 2 -> "2" [] n = 3 -> "3"
      [] n = 4 -> "4" [] n = 5 -> "5" [] n = 6 -> "6" [] n = 7 -> "7"
      [] n = 8 -> "8" [] OTHER -> "9"

RECURSIVE IntToStr(_)
IntToStr(n) == IF n < 10 THEN <<Digit(n)>> ELSE IntToStr(n \div 10) \o <<Digit(n % 10)>>

\* `needle in text` for Python str: a contiguous run of text equals needle.
Contains(text, needle) ==
    \E i \in 0..(Len(text) - Len(needle)) :
        \A j \in 1..Len(needle) : text[i + j] = needle[j]

\* dict.get(key) is None / key missing: the model's dicts are functions.
HasKey(d, k) == k \in DOMAIN d

EmptyDict == [k \in {} |-> <<>>]

\* ------------------------------------------------------------- inputs
tcp == <<"t", "c", "p">>
TCP == <<"T", "C", "P">>
udp == <<"u", "d", "p">>

\* MAC addresses (two characters stand for the six octets): "aa", "Aa" and
\* "ab"; the first two differ in case only.
Macs == {<<"a", "a">>, <<"A", "a">>, <<"a", "b">>}
Ips == {<<"ip1">>, <<"ip2">>}

\* What the DHCP module is invoked with (module.params: mac, ip).
DhcpParams == [mac : Macs, ip : Ips]

\* The lease records the device may hold before the first invocation (at least
\* mac and ip); later ones are the records the invocations create.
DhcpRecords ==
    {[mac |-> <<"a", "a">>, ip |-> <<"ip1">>],
     [mac |-> <<"A", "a">>, ip |-> <<"ip2">>],
     [mac |-> <<"a", "b">>, ip |-> <<"ip1">>]}

\* The NAT rule of the module's EXAMPLES, with small port numbers.
BaseNat ==
    [lan_ip |-> <<"h1">>, lan_port |-> 1, wan_port_start |-> 3, wan_port_end |-> 5,
     ip_proto |-> tcp, src_ip |-> <<"0.0.0.0">>, enabled |-> TRUE, comment |-> <<>>]

\* BaseNat and every rule that differs from it in one field.
NatRules ==
    {BaseNat}
    \cup {[BaseNat EXCEPT !.lan_ip = <<"h2">>],
          [BaseNat EXCEPT !.lan_port = 2],
          [BaseNat EXCEPT !.wan_port_start = 4],
          [BaseNat EXCEPT !.wan_port_end = 6],
          [BaseNat EXCEPT !.ip_proto = TCP],
          [BaseNat EXCEPT !.ip_proto = udp],
          [BaseNat EXCEPT !.src_ip = <<"s1">>],
          [BaseNat EXCEPT !.enabled = FALSE],
          [BaseNat EXCEPT !.comment = <<"c">>]}

\* The port forwardings the device may hold before the first invocation; later
\* ones are the records the invocations create.
NatRecords ==
    {BaseNat,
     [BaseNat EXCEPT !.ip_proto = TCP],
     [BaseNat EXCEPT !.lan_port = 2],
     [BaseNat EXCEPT !.comment = <<"c">>]}

\* dict restricted to some of its keys.
Restrict(d, keys) == [k \in keys |-> d[k]]

\* The arguments a task may give the DHCP module: both, or one of the two
\* required ones missing.
DhcpArgs ==
    DhcpParams
    \cup {Restrict([mac |-> <<"a", "a">>, ip |-> <<"ip1">>], {"ip"}),
          Restrict([mac |-> <<"a", "a">>, ip |-> <<"ip1">>], {"mac"})}

\* The arguments a task may give the NAT module: every field (an ip_proto of
\* "TCP" among them), the optional src_ip and comment left out, or the
\* required enabled left out.
NatArgs ==
    NatRules
    \cup {Restrict(BaseNat, DOMAIN BaseNat \ {"src_ip", "comment"}),
          Restrict(BaseNat, DOMAIN BaseNat \ {"enabled"})}

\* dhcp.py 141-142: the arguments with required=True.
DhcpRequired == {"mac", "ip"}

\* nat.py 235-241: the arguments with required=True.
NatRequired == {"lan_ip", "lan_port", "wan_port_start", "wan_port_end", "ip_proto", "enabled"}

\* nat.py 239: choices=['tcp', 'udp'].
NatChoices == {tcp, udp}

\* dhcp.py 161-163: module.params; an argument that was not given is None
\* (the empty str stands for it: the module never gets to read it).
DhcpModuleParams(args) ==
    [k \in {"mac", "ip"} |-> IF k \in DOMAIN args THEN args[k] ELSE <<>>]

\* nat.py 240, 242, 267-275: module.params; src_ip and comment get their
\* defaults, another argument that was not given is None (the value of
\* BaseNat stands for it: the module never gets to read it).
NatModuleParams(args) ==
    [k \in DOMAIN BaseNat |->
        IF k \in DOMAIN args THEN args[k]
        ELSE IF k = "src_ip" THEN <<"0.0.0.0">>
        ELSE IF k = "comment" THEN <<>>
        ELSE BaseNat[k]]

\* Texts of the exceptions the Freebox client raises (transport failures).
ErrTexts == {<<"unreachable">>}

\* The msg text of a device response that refuses a create.
DevMsgs == {<<"conflict">>}

\* Sequences over S of length at most n.
RECURSIVE SeqsUpTo(_, _)
SeqsUpTo(S, n) ==
    IF n = 0 THEN {<<>>}
    ELSE LET shorter == SeqsUpTo(S, n - 1)
         IN shorter \cup {Append(s, x) : s \in {t \in shorter : Len(t) = n - 1}, x \in S}


\* ------------------------------------------------------------- state
VARIABLES
    module,         \* which of the two modules the invocations run: "dhcp" or "nat"
    device,         \* the device's rule list of that kind, in the device's order
    pc,             \* where each invocation is: "start", "opened", "nomatch", "done"
    params,         \* module.params of each invocation: the desired rule
    supplied,       \* the argument names the task gave the invocation
    check_mode,     \* module.check_mode: whether the invocations run with --check
    fetched,        \* static_confs / nat_rules: the list the invocation fetched
    create_result,  \* result: the device's response to the create request
    raisedAt,       \* where the exception caught by configure_* came from, or "none":
                    \* "open", "list", "create" (the call raised), "result" (the raise
                    \* after a response without acknowledgment)
    exc,            \* str(e) of that exception
    calls,          \* the remote calls the invocation has issued, in order
    session,        \* the Freepybox session of the invocation: "none" or "open"
    result,         \* run_module's result dict
    reported,       \* "none", "exit_json" or "fail_json"
    reports,        \* the exit_json / fail_json calls of the invocation, with their kwargs
    submitted,      \* the records the invocation sent in create requests, in order
    stored          \* whether the device stored the record of the invocation's create

vars == <<module, device, pc, params, supplied, check_mode, fetched, create_result, raisedAt, exc, calls,
          session, result, reported, reports, submitted, stored>>

\* ------------------------------------------------------------- dhcp.py
\* Line 112, right conjunct of the loop condition.
MacDiffers(static_conf, mac) == Upper(static_conf.mac) /= Upper(mac)

\* Mutant of MacEquals: line 114 without the upper-casing.
MacEqualsExact(static_conf, mac) == static_conf.mac = mac

\* Line 114, right conjunct.
MacEquals(static_conf, mac) == Upper(static_conf.mac) = Upper(mac)

\* Lines 111-113: the index the while loop stops at (0-based, as in the code).
RECURSIVE ScanIndex(_, _, _)
ScanIndex(static_confs, mac, i) ==
    IF i < Len(static_confs) /\ MacDiffers(static_confs[i + 1], mac)
    THEN ScanIndex(static_confs, mac, i + 1)
    ELSE i

\* Mutant of found_mac: line 114 repeats the loop's != test instead of ==.
found_macWrongTest(static_confs, mac) ==
    LET i == ScanIndex(static_confs, mac, 0)
    IN  i < Len(static_confs) /\ MacDiffers(static_confs[i + 1], mac)

\* Mutant of found_mac: only the first lease is looked at.
found_macFirstOnly(static_confs, mac) ==
    0 < Len(static_confs) /\ MacEquals(static_confs[1], mac)

\* Lines 111-114.
found_mac(static_confs, mac) ==
    LET i == ScanIndex(static_confs, mac, 0)
    IN  i < Len(static_confs) /\ MacEquals(static_confs[i + 1], mac)

\* Mutant of DhcpPayload: the MAC is sent upper-cased.
DhcpPayloadUpper(mac, ip) == [ip |-> ip, mac |-> Upper(mac)]

\* Lines 122-125: the record submitted to create_dhcp_static_lease.
DhcpPayload(mac, ip) == [ip |-> ip, mac |-> mac]

\* The responses the device may give to the create of `payload`: the created
\* record echoed, a refusal with an empty mac and a msg, a refusal with a msg
\* alone, and a dict with neither key.
DhcpResponses(payload) ==
    {payload}
    \cup {[mac |-> <<>>, msg |-> m] : m \in DevMsgs}
    \cup {[msg |-> m] : m \in DevMsgs}
    \cup {EmptyDict}

\* Line 128: result.get("mac") is truthy.
DhcpAcknowledged(res) == HasKey(res, "mac") /\ res.mac /= <<>>

\* Line 131: the text of the exception raised there; result['msg'] raises
\* KeyError('msg'), whose str() is 'msg' in quotes, when the key is missing.
DhcpCreateFailureText(res) ==
    IF HasKey(res, "msg")
    THEN <<"Failed to configure static DHCP: ">> \o res.msg
    ELSE <<"'msg'">>

\* Mutant of DhcpWrap: the cause is dropped from the message.
DhcpWrapNoCause(e) == <<"Error configuring", " static", " DHCP">>

\* Line 134.
DhcpWrap(e) == <<"Error configuring", " static", " DHCP", ": ">> \o e

\* Line 170.
DhcpMessage(mac, ip) ==
    <<"Static DHCP configured for MAC ">> \o mac \o <<" with IP ">> \o ip

\* ------------------------------------------------------------- nat.py
\* Mutant of RuleMatches: the comment is compared too.
RuleMatchesWithComment(rule, p) ==
    /\ rule.lan_ip = p.lan_ip
    /\ rule.lan_port = p.lan_port
    /\ rule.wan_port_start = p.wan_port_start
    /\ rule.wan_port_end = p.wan_port_end
    /\ Upper(rule.ip_proto) = Upper(p.ip_proto)
    /\ rule.comment = p.comment

\* Mutant of RuleMatches: ip_proto compared without the upper-casing.
RuleMatchesExactProto(rule, p) ==
    /\ rule.lan_ip = p.lan_ip
    /\ rule.lan_port = p.lan_port
    /\ rule.wan_port_start = p.wan_port_start
    /\ rule.wan_port_end = p.wan_port_end
    /\ rule.ip_proto = p.ip_proto

\* Lines 201-205: the if condition; p holds the arguments of configure_nat.
RuleMatches(rule, p) ==
    /\ rule.lan_ip = p.lan_ip
    /\ rule.lan_port = p.lan_port
    /\ rule.wan_port_start = p.wan_port_start
    /\ rule.wan_port_end = p.wan_port_end
    /\ Upper(rule.ip_proto) = Upper(p.ip_proto)

\* Mutant of RuleExists: the loop ends after its first rule.
RuleExistsFirstOnly(nat_rules, p, i) ==
    i = 1 /\ Len(nat_rules) >= 1 /\ RuleMatches(nat_rules[1], p)

\* Lines 200-206: TRUE when the for loop returns False at some rule, scanning
\* from index i (1-based).
RECURSIVE RuleExists(_, _, _)
RuleExists(nat_rules, p, i) ==
    IF i > Len(nat_rules) THEN FALSE
    ELSE IF RuleMatches(nat_rules[i], p)
         THEN TRUE
         ELSE RuleExists(nat_rules, p, i + 1)

\* Mutant of NatPayload: wan_port_end is filled from wan_port_start.
NatPayloadOnePort(p) ==
    [enabled |-> p.enabled, comment |-> p.comment, lan_port |-> p.lan_port,
     wan_port_start |-> p.wan_port_start, wan_port_end |-> p.wan_port_start,
     lan_ip |-> p.lan_ip, ip_proto |-> p.ip_proto, src_ip |-> p.src_ip]

\* Lines 210-219: the record submitted to create_port_forwarding_configuration.
NatPayload(p) ==
    [enabled |-> p.enabled, comment |-> p.comment, lan_port |-> p.lan_port,
     wan_port_start |-> p.wan_port_start, wan_port_end |-> p.wan_port_end,
     lan_ip |-> p.lan_ip, ip_proto |-> p.ip_proto, src_ip |-> p.src_ip]

\* The responses the device may give to a create; enabled is the JSON literal
\* the response carries ("null" is Python's None).
NatResponses ==
    {[enabled |-> e] : e \in {"true", "false"}}
    \cup {[enabled |-> "null", msg |-> m] : m \in DevMsgs}
    \cup {[msg |-> m] : m \in DevMsgs}
    \cup {EmptyDict}

\* Mutant of NatAcknowledged: a truthiness test, as dhcp.py has for mac.
NatAcknowledgedTruthy(res) == HasKey(res, "enabled") /\ res.enabled = "true"

\* Line 222: result.get("enabled") is not None.
NatAcknowledged(res) == HasKey(res, "enabled") /\ res.enabled /= "null"

\* Line 225.
NatCreateFailureText(res) ==
    IF HasKey(res, "msg")
    THEN <<"Failed to configure NAT rule: ">> \o res.msg
    ELSE <<"'msg'">>

\* Mutant of NatWrap: the cause is replaced by a fixed text.
NatWrapReplaced(e) == <<"Error configuring", " NAT", ": ", "request failed">>

\* Line 228.
NatWrap(e) == <<"Error configuring", " NAT", ": ">> \o e

\* Line 282.
NatMessage(p) ==
    <<"NAT rule configured for ">> \o p.ip_proto \o <<" from external port ">>
    \o IntToStr(p.wan_port_start) \o <<" to internal ">> \o p.lan_ip \o <<":">>
    \o IntToStr(p.lan_port)

\* ------------------------------------------------------------- run_module
\* dhcp.py 146-152: the seeded result dict.
DhcpSeedResult ==
    [changed |-> FALSE, original_message |-> <<>>, message |-> <<>>,
     mac_address |-> <<>>, ip_address |-> <<>>]

\* nat.py 246-258: the seeded result dict.
NatSeedResult ==
    [changed |-> FALSE, original_message |-> <<>>, message |-> <<>>,
     lan_ip |-> <<>>, lan_port |-> 0, wan_port_start |-> 0, wan_port_end |-> 0,
     ip_proto |-> <<>>, src_ip |-> <<>>, enabled |-> FALSE, comment |-> <<>>]

\* dhcp.py 171-172: the input fields written back into result.
DhcpEcho(mac, ip) == [mac_address |-> mac, ip_address |-> ip]

\* Mutant of NatEcho: wan_port_end echoes wan_port_start.
NatEchoOnePort(p) ==
    [lan_ip |-> p.lan_ip, lan_port |-> p.lan_port,
     wan_port_start |-> p.wan_port_start, wan_port_end |-> p.wan_port_start,
     ip_proto |-> p.ip_proto, src_ip |-> p.src_ip, enabled |-> p.enabled,
     comment |-> p.comment]

\* nat.py 283-290: the input fields written back into result.
NatEcho(p) ==
    [lan_ip |-> p.lan_ip, lan_port |-> p.lan_port,
     wan_port_start |-> p.wan_port_start, wan_port_end |-> p.wan_port_end,
     ip_proto |-> p.ip_proto, src_ip |-> p.src_ip, enabled |-> p.enabled,
     comment |-> p.comment]

\* dict.update: d with the keys of e set to e's values.
Update(d, e) == [k \in DOMAIN d \cup DOMAIN e |-> IF k \in DOMAIN e THEN e[k] ELSE d[k]]

\* One exit_json / fail_json call with its keyword arguments.
Report(p, call, kwargs) ==
    /\ reports' = [reports EXCEPT ![p] = Append(@, [call |-> call, kwargs |-> kwargs])]
    /\ reported' = [reported EXCEPT ![p] = call]

\* configure_* returned `changed`: the try body of run_module, which fills
\* result and calls exit_json(**result).
ExitJson(p, changed, message, echo) ==
    /\ result' = [result EXCEPT
                    ![p] = Update(Update(@, [changed |-> changed, message |-> message]), echo)]
    /\ Report(p, "exit_json", result'[p])
    /\ pc' = [pc EXCEPT ![p] = "done"]

\* Mutant of FailJson: the except branch stores the message and reports nothing.
FailJsonSilent(p, text) ==
    /\ result' = [result EXCEPT ![p].message = text]
    /\ UNCHANGED <<reported, reports>>
    /\ pc' = [pc EXCEPT ![p] = "done"]

\* configure_* raised Exception(text): the except branch of run_module,
\* fail_json(msg=result['message'], **result).
FailJson(p, text) ==
    /\ result' = [result EXCEPT ![p].message = text]
    /\ Report(p, "fail_json", Update(result'[p], [msg |-> text]))
    /\ pc' = [pc EXCEPT ![p] = "done"]

Called(p, op) == calls' = [calls EXCEPT ![p] = Append(@, op)]

\* The except clause of configure_* catches e, raised at `at`.
Caught(p, at, e) ==
    /\ raisedAt' = [raisedAt EXCEPT ![p] = at]
    /\ exc' = [exc EXCEPT ![p] = e]

\* The create request carries `payload`.
Submitted(p, payload) == submitted' = [submitted EXCEPT ![p] = Append(@, payload)]

\* ------------------------------------------------------------- initial state
Init ==
    /\ module \in {"dhcp", "nat"}
    /\ device \in IF module = "dhcp" THEN SeqsUpTo(DhcpRecords, MaxRemote)
                  ELSE SeqsUpTo(NatRecords, MaxRemote)
    /\ \E args \in IF module = "dhcp" THEN [Procs -> DhcpArgs] ELSE [Procs -> NatArgs] :
        /\ params = [p \in Procs |-> IF module = "dhcp" THEN DhcpModuleParams(args[p])
                                      ELSE NatModuleParams(args[p])]
        /\ supplied = [p \in Procs |-> DOMAIN args[p]]
    /\ check_mode \in BOOLEAN
    /\ pc = [p \in Procs |-> "start"]
    /\ fetched = [p \in Procs |-> <<>>]
    /\ create_result = [p \in Procs |-> EmptyDict]
    /\ raisedAt = [p \in Procs |-> "none"]
    /\ exc = [p \in Procs |-> <<>>]
    /\ calls = [p \in Procs |-> <<>>]
    /\ session = [p \in Procs |-> "none"]
    /\ result = [p \in Procs |-> IF module = "dhcp" THEN DhcpSeedResult ELSE NatSeedResult]
    /\ reported = [p \in Procs |-> "none"]
    /\ reports = [p \in Procs |-> <<>>]
    /\ submitted = [p \in Procs |-> <<>>]
    /\ stored = [p \in Procs |-> FALSE]

\* ------------------------------------------------------------- validation
\* Mutant of DhcpValid: mac declared without required=True.
DhcpValidMacOptional(p) == "ip" \in supplied[p]

\* dhcp.py 139-143, 155-158: AnsibleModule(argument_spec=module_args) accepts
\* the arguments.
DhcpValid(p) == DhcpRequired \subseteq supplied[p]

\* Mutant of NatValid: ip_proto declared without choices.
NatValidNoChoices(p) == NatRequired \subseteq supplied[p]

\* nat.py 233-243, 261-264: AnsibleModule(argument_spec=module_args) accepts
\* the arguments.
NatValid(p) == NatRequired \subseteq supplied[p] /\ params[p].ip_proto \in NatChoices

\* The text AnsibleModule fails with.
InvalidText == <<"invalid or missing arguments">>

\* AnsibleModule's own fail_json ends the process: run_module goes no further.
Rejected(p) ==
    /\ Report(p, "fail_json", [msg |-> InvalidText])
    /\ pc' = [pc EXCEPT ![p] = "done"]

\* ------------------------------------------------------------- dhcp.py actions
\* dhcp.py 155-158: AnsibleModule rejects the arguments.
DhcpRejects(p) ==
    /\ module = "dhcp" /\ pc[p] = "start"
    /\ ~DhcpValid(p)
    /\ Rejected(p)
    /\ UNCHANGED <<module, supplied, check_mode, submitted, device, params, fetched, create_result,
                   raisedAt, exc, calls, session, result, stored>>

\* dhcp.py 155-163, 107-108: the arguments are accepted and fb.open() returns.
DhcpOpen(p) ==
    /\ module = "dhcp" /\ pc[p] = "start"
    /\ DhcpValid(p)
    /\ Called(p, "open")
    /\ session' = [session EXCEPT ![p] = "open"]
    /\ pc' = [pc EXCEPT ![p] = "opened"]
    /\ UNCHANGED <<module, supplied, check_mode, submitted, device, params, fetched, create_result, raisedAt, exc,
                   result, reported, reports, stored>>

\* dhcp.py 108, 133-134, 177-180: fb.open() raises.
DhcpOpenRaises(p) ==
    /\ module = "dhcp" /\ pc[p] = "start"
    /\ DhcpValid(p)
    /\ \E e \in ErrTexts :
        /\ Called(p, "open")
        /\ Caught(p, "open", e)
        /\ FailJson(p, DhcpWrap(e))
    /\ UNCHANGED <<module, supplied, check_mode, submitted, device, params, fetched, create_result, session, stored>>

\* Mutant of DhcpList: a found lease is updated to the desired ip (the put
\* request line 116 leaves to do).
DhcpListUpdates(p) ==
    /\ module = "dhcp" /\ pc[p] = "opened"
    /\ Called(p, "list")
    /\ fetched' = [fetched EXCEPT ![p] = device]
    /\ IF found_mac(device, params[p].mac)
       THEN /\ ExitJson(p, FALSE, DhcpMessage(params[p].mac, params[p].ip),
                         DhcpEcho(params[p].mac, params[p].ip))
            /\ device' = [device EXCEPT
                            ![ScanIndex(device, params[p].mac, 0) + 1].ip = params[p].ip]
       ELSE /\ pc' = [pc EXCEPT ![p] = "nomatch"]
            /\ UNCHANGED <<result, reported, reports, device>>
    /\ UNCHANGED <<module, supplied, check_mode, submitted, params, create_result, raisedAt,
                   exc, session, stored>>

\* dhcp.py 110-117, 169-175: the lease list arrives and is scanned; a found
\* MAC returns False and run_module exits with changed = False.
DhcpList(p) ==
    /\ module = "dhcp" /\ pc[p] = "opened"
    /\ Called(p, "list")
    /\ fetched' = [fetched EXCEPT ![p] = device]
    /\ IF found_mac(device, params[p].mac)
       THEN ExitJson(p, FALSE, DhcpMessage(params[p].mac, params[p].ip),
                         DhcpEcho(params[p].mac, params[p].ip))
       ELSE /\ pc' = [pc EXCEPT ![p] = "nomatch"]
            /\ UNCHANGED <<result, reported, reports>>
    /\ UNCHANGED <<module, supplied, check_mode, submitted, device, params, create_result, raisedAt, exc, session, stored>>

\* dhcp.py 110, 133-134, 177-180: get_dhcp_static_leases() raises.
DhcpListRaises(p) ==
    /\ module = "dhcp" /\ pc[p] = "opened"
    /\ \E e \in ErrTexts :
        /\ Called(p, "list")
        /\ Caught(p, "list", e)
        /\ FailJson(p, DhcpWrap(e))
    /\ UNCHANGED <<module, supplied, check_mode, submitted, device, params, fetched, create_result, session, stored>>

\* dhcp.py 121-131, 133-134, 169-180: the create request is answered.  The
\* device stores the submitted record or not, whatever it answers.
DhcpCreate(p) ==
    /\ module = "dhcp" /\ pc[p] = "nomatch"
    /\ LET payload == DhcpPayload(params[p].mac, params[p].ip)
       IN \E res \in DhcpResponses(payload), st \in BOOLEAN :
            /\ Called(p, "create")
            /\ Submitted(p, payload)
            /\ device' = IF st THEN Append(device, payload) ELSE device
            /\ stored' = [stored EXCEPT ![p] = st]
            /\ create_result' = [create_result EXCEPT ![p] = res]
            /\ IF DhcpAcknowledged(res)
               THEN /\ ExitJson(p, TRUE, DhcpMessage(params[p].mac, params[p].ip),
                         DhcpEcho(params[p].mac, params[p].ip))
                    /\ UNCHANGED <<raisedAt, exc>>
               ELSE /\ Caught(p, "result", DhcpCreateFailureText(res))
                    /\ FailJson(p, DhcpWrap(DhcpCreateFailureText(res)))
    /\ UNCHANGED <<module, supplied, check_mode, params, fetched, session>>

\* dhcp.py 121, 133-134, 177-180: create_dhcp_static_lease() raises.
DhcpCreateRaises(p) ==
    /\ module = "dhcp" /\ pc[p] = "nomatch"
    /\ \E e \in ErrTexts, st \in BOOLEAN :
        /\ Called(p, "create")
        /\ Submitted(p, DhcpPayload(params[p].mac, params[p].ip))
        /\ device' = IF st THEN Append(device, DhcpPayload(params[p].mac, params[p].ip))
                     ELSE device
        /\ stored' = [stored EXCEPT ![p] = st]
        /\ Caught(p, "create", e)
        /\ FailJson(p, DhcpWrap(e))
    /\ UNCHANGED <<module, supplied, check_mode, params, fetched, create_result, session>>

\* ------------------------------------------------------------- nat.py actions
\* nat.py 261-264: AnsibleModule rejects the arguments.
NatRejects(p) ==
    /\ module = "nat" /\ pc[p] = "start"
    /\ ~NatValid(p)
    /\ Rejected(p)
    /\ UNCHANGED <<module, supplied, check_mode, submitted, device, params, fetched, create_result,
                   raisedAt, exc, calls, session, result, stored>>

\* nat.py 261-275, 195-196: the arguments are accepted and fb.open() returns.
NatOpen(p) ==
    /\ module = "nat" /\ pc[p] = "start"
    /\ NatValid(p)
    /\ Called(p, "open")
    /\ session' = [session EXCEPT ![p] = "open"]
    /\ pc' = [pc EXCEPT ![p] = "opened"]
    /\ UNCHANGED <<module, supplied, check_mode, submitted, device, params, fetched, create_result, raisedAt, exc,
                   result, reported, reports, stored>>

\* nat.py 196, 227-228, 295-298: fb.open() raises.
NatOpenRaises(p) ==
    /\ module = "nat" /\ pc[p] = "start"
    /\ NatValid(p)
    /\ \E e \in ErrTexts :
        /\ Called(p, "open")
        /\ Caught(p, "open", e)
        /\ FailJson(p, NatWrap(e))
    /\ UNCHANGED <<module, supplied, check_mode, submitted, device, params, fetched, create_result, session, stored>>

\* nat.py 199-206, 281-293: the rule list arrives and is scanned; a matching
\* rule returns False and run_module exits with changed = False.
NatList(p) ==
    /\ module = "nat" /\ pc[p] = "opened"
    /\ Called(p, "list")
    /\ fetched' = [fetched EXCEPT ![p] = device]
    /\ IF RuleExists(device, params[p], 1)
       THEN ExitJson(p, FALSE, NatMessage(params[p]), NatEcho(params[p]))
       ELSE /\ pc' = [pc EXCEPT ![p] = "nomatch"]
            /\ UNCHANGED <<result, reported, reports>>
    /\ UNCHANGED <<module, supplied, check_mode, submitted, device, params, create_result, raisedAt, exc, session, stored>>

\* nat.py 199, 227-228, 295-298: get_all_port_forwarding_configuration() raises.
NatListRaises(p) ==
    /\ module = "nat" /\ pc[p] = "opened"
    /\ \E e \in ErrTexts :
        /\ Called(p, "list")
        /\ Caught(p, "list", e)
        /\ FailJson(p, NatWrap(e))
    /\ UNCHANGED <<module, supplied, check_mode, submitted, device, params, fetched, create_result, session, stored>>

\* nat.py 209-225, 227-228, 281-298: the create request is answered.
NatCreate(p) ==
    /\ module = "nat" /\ pc[p] = "nomatch"
    /\ \E res \in NatResponses, st \in BOOLEAN :
        /\ Called(p, "create")
        /\ Submitted(p, NatPayload(params[p]))
        /\ device' = IF st THEN Append(device, NatPayload(params[p])) ELSE device
        /\ stored' = [stored EXCEPT ![p] = st]
        /\ create_result' = [create_result EXCEPT ![p] = res]
        /\ IF NatAcknowledged(res)
           THEN /\ ExitJson(p, TRUE, NatMessage(params[p]), NatEcho(params[p]))
                /\ UNCHANGED <<raisedAt, exc>>
           ELSE /\ Caught(p, "result", NatCreateFailureText(res))
                /\ FailJson(p, NatWrap(NatCreateFailureText(res)))
    /\ UNCHANGED <<module, supplied, check_mode, params, fetched, session>>

\* nat.py 209, 227-228, 295-298: create_port_forwarding_configuration() raises.
NatCreateRaises(p) ==
    /\ module = "nat" /\ pc[p] = "nomatch"
    /\ \E e \in ErrTexts, st \in BOOLEAN :
        /\ Called(p, "create")
        /\ Submitted(p, NatPayload(params[p]))
        /\ device' = IF st THEN Append(device, NatPayload(params[p])) ELSE device
        /\ stored' = [stored EXCEPT ![p] = st]
        /\ Caught(p, "create", e)
        /\ FailJson(p, NatWrap(e))
    /\ UNCHANGED <<module, supplied, check_mode, params, fetched, create_result, session>>

\* ------------------------------------------------------------- specification
Next ==
    \E p \in Procs :
        \/ DhcpRejects(p)
        \/ DhcpOpen(p)
        \/ DhcpOpenRaises(p)
        \/ DhcpList(p)
        \/ DhcpListRaises(p)
        \/ DhcpCreate(p)
        \/ DhcpCreateRaises(p)
        \/ NatRejects(p)
        \/ NatOpen(p)
        \/ NatOpenRaises(p)
        \/ NatList(p)
        \/ NatListRaises(p)
        \/ NatCreate(p)
        \/ NatCreateRaises(p)

Spec == Init /\ [][Next]_vars


\* ------------------------------------------------------------- outcomes
\* The ReconciliationOutcome of an invocation, as run_module reports it.
Unchanged(p) == pc[p] = "done" /\ reported[p] = "exit_json" /\ result[p].changed = FALSE
Created(p) == pc[p] = "done" /\ reported[p] = "exit_json" /\ result[p].changed = TRUE
Failed(p) == pc[p] = "done" /\ reported[p] = "fail_json"

Issued(p, op) == \E i \in DOMAIN calls[p] : calls[p][i] = op

\* The list call of p returned its list.
Listed(p) == Issued(p, "list") /\ raisedAt[p] /= "list"

\* The create call of p returned a response.
Answered(p) == Issued(p, "create") /\ raisedAt[p] /= "create"

\* The match as the specification words it: some record with the desired
\* MAC, both upper-cased / some record with the desired identity tuple.
HasLease(list, d) ==
    \E i \in DOMAIN list : Upper(list[i].mac) = Upper(d.mac)

SameLetters(a, b) ==
    Len(a) = Len(b) /\ \A i \in DOMAIN a : UpperChar(a[i]) = UpperChar(b[i])

SameTuple(r, d) ==
    /\ r.lan_ip = d.lan_ip
    /\ r.lan_port = d.lan_port
    /\ r.wan_port_start = d.wan_port_start
    /\ r.wan_port_end = d.wan_port_end
    /\ SameLetters(r.ip_proto, d.ip_proto)

HasForwarding(list, d) == \E i \in DOMAIN list : SameTuple(list[i], d)

Present(list, d) == IF module = "dhcp" THEN HasLease(list, d) ELSE HasForwarding(list, d)

\* The desired rules of two invocations are the same rule: the same (mac, ip),
\* the same identity tuple.
SameRule(d, e) == IF module = "dhcp" THEN d = e ELSE SameTuple(d, e)

\* The response carries the acknowledgment field.
Acknowledges(res) ==
    IF module = "dhcp"
    THEN "mac" \in DOMAIN res /\ Len(res.mac) > 0
    ELSE "enabled" \in DOMAIN res /\ res.enabled \in {"true", "false"}

\* The device stored the record p submitted and acknowledged it.
StoredAndAcknowledged(p) == Answered(p) /\ stored[p] /\ Acknowledges(create_result[p])

\* ------------------------------------------------------------- claims
\* C1 (first half): an invocation whose fetched list does not hold the desired
\* rule, and whose create the device stored and acknowledged, reports
\* changed = true.
FirstInvocationCreates ==
    \A p \in Procs :
        (pc[p] = "done" /\ Listed(p) /\ ~Present(fetched[p], params[p])
            /\ StoredAndAcknowledged(p))
        => Created(p)

\* C1 (second half): once an invocation p has created its rule on a device that
\* stored and acknowledged it, the list step of an invocation q of the same
\* rule (for NAT: the same identity tuple, whatever comment and enabled are)
\* ends q with changed = false and without a create request.
SecondInvocationStep ==
    \A p, q \in Procs :
        (/\ p /= q
         /\ Created(p) /\ StoredAndAcknowledged(p)
         /\ SameRule(params[p], params[q])
         /\ pc[q] = "opened" /\ pc'[q] /= "opened" /\ raisedAt'[q] /= "list")
        => /\ pc'[q] = "done"
           /\ reported'[q] = "exit_json"
           /\ result'[q].changed = FALSE
           /\ \A i \in DOMAIN calls'[q] : calls'[q][i] /= "create"

\* C1: two consecutive invocations of the same desired rule, against a device
\* that stores and acknowledges what it is asked to create, report
\* changed = true and then changed = false, the second without a create.
C1_Idempotent == [] FirstInvocationCreates /\ [][SecondInvocationStep]_vars

\* C1 witness: the device started empty, p created the rule, and q, invoked
\* for the same NAT identity with another comment or enabled value, ended
\* unchanged without a create.
C1_Witness ==
    \E p, q \in Procs :
        /\ p /= q /\ module = "nat"
        /\ fetched[p] = <<>> /\ Created(p) /\ StoredAndAcknowledged(p)
        /\ Len(device) = 1
        /\ SameRule(params[p], params[q])
        /\ (params[p].comment /= params[q].comment \/ params[p].enabled /= params[q].enabled)
        /\ Unchanged(q) /\ ~Issued(q, "create")

\* C2: whenever the fetched list holds the desired rule, the invocation ends
\* Unchanged: exit_json with changed = false, no exception, no create request.
C2_MatchIsNoOp ==
    \A p \in Procs :
        (Listed(p) /\ Present(fetched[p], params[p]))
        => /\ Unchanged(p)
           /\ raisedAt[p] = "none"
           /\ ~Issued(p, "create")

\* C2 witness: a DHCP invocation found its MAC in a non-empty fetched list.
C2_Witness ==
    \E p \in Procs :
        /\ module = "dhcp" /\ Listed(p) /\ Present(fetched[p], params[p])
        /\ Unchanged(p)

\* C3: the DHCP reconciler treats the rule as existing (ends Unchanged, no
\* create) exactly when some fetched record's mac equals the desired mac after
\* upper-casing both; otherwise it goes on to the create.  No ip is looked at.
C3_DhcpMatch ==
    module = "dhcp" =>
        \A p \in Procs :
            Listed(p) =>
                /\ (Unchanged(p) /\ ~Issued(p, "create")) <=> HasLease(fetched[p], params[p])
                /\ ~HasLease(fetched[p], params[p]) => (pc[p] = "nomatch" \/ Issued(p, "create"))

\* C3 witness: Unchanged on a lease whose mac differs in case and whose ip
\* differs from the desired one.
C3_Witness ==
    \E p \in Procs :
        /\ module = "dhcp" /\ Unchanged(p)
        /\ \E i \in DOMAIN fetched[p] :
            /\ fetched[p][i].mac /= params[p].mac
            /\ Upper(fetched[p][i].mac) = Upper(params[p].mac)
            /\ fetched[p][i].ip /= params[p].ip
        /\ \A i \in DOMAIN fetched[p] : fetched[p][i].mac /= params[p].mac

C5_FetchFailure ==
    \A p \in Procs :
        raisedAt[p] = "list"
        => /\ Failed(p)
           /\ ~Issued(p, "create")
           /\ exc[p] \in ErrTexts
           /\ Contains(result[p].message, exc[p])

\* C5 witness: a DHCP invocation whose list call raised.
C5_Witness ==
    \E p \in Procs :
        module = "dhcp" /\ raisedAt[p] = "list" /\ calls[p] = <<"open", "list">> /\ Failed(p)

\* C6: after a create request that returned a response, the outcome is Created
\* exactly when the response carries the acknowledgment field (a non-empty mac
\* for DHCP; an enabled that is not null for NAT, false included); otherwise
\* the invocation is Failed, through fail_json, with changed = false.
C6_CreateClassification ==
    \A p \in Procs :
        Answered(p)
        => /\ Created(p) <=> Acknowledges(create_result[p])
           /\ ~Acknowledges(create_result[p])
                  => (Failed(p) /\ ~Unchanged(p) /\ result[p].changed = FALSE)

\* C6 witness: a NAT create answered with enabled = false ended Created.
C6_Witness ==
    \E p \in Procs :
        /\ module = "nat" /\ Answered(p)
        /\ "enabled" \in DOMAIN create_result[p] /\ create_result[p].enabled = "false"
        /\ Created(p)

\* The generic texts of line 131 of dhcp.py and line 225 of nat.py.
GenericFailureTexts == {"Failed to configure static DHCP: ", "Failed to configure NAT rule: "}

\* C7: when the create response lacks the acknowledgment field, the failure
\* message carries the device's msg text if the response has one, and the
\* generic "failed to configure" text otherwise.
C7_SemanticFailureMessage ==
    \A p \in Procs :
        (Answered(p) /\ ~Acknowledges(create_result[p]))
        => /\ Failed(p)
           /\ IF "msg" \in DOMAIN create_result[p]
              THEN Contains(result[p].message, create_result[p].msg)
              ELSE \E i \in DOMAIN result[p].message :
                       result[p].message[i] \in GenericFailureTexts

\* C8: no invocation that opened the device session reaches its terminal state
\* with the session still open.
C8_SessionReleased ==
    \A p \in Procs :
        (pc[p] = "done" /\ Issued(p, "open") /\ raisedAt[p] /= "open")
        => session[p] /= "open"

IsPrefix(s, t) == Len(s) <= Len(t) /\ \A i \in DOMAIN s : s[i] = t[i]

\* C9: the remote calls of an invocation are open, then list, then at most one
\* create; a create is issued only after the list call returned a list that
\* does not hold the desired rule.
C9_CallOrder ==
    \A p \in Procs :
        /\ IsPrefix(calls[p], <<"open", "list", "create">>)
        /\ Issued(p, "create") => (Listed(p) /\ ~Present(fetched[p], params[p]))

\* C9 witness: a NAT invocation issued its create after fetching a non-empty
\* list without the desired rule.
C9_Witness ==
    \E p \in Procs :
        /\ module = "nat" /\ calls[p] = <<"open", "list", "create">>
        /\ Len(fetched[p]) >= 1 /\ ~Present(fetched[p], params[p])

\* Two desired rules have the same identity: the same MAC up to case, the same
\* identity tuple.
SameIdentity(d, e) ==
    IF module = "dhcp" THEN Upper(d.mac) = Upper(e.mac) ELSE SameTuple(d, e)

\* The records of a list that have the identity of the desired rule d.
Copies(list, d) ==
    {i \in DOMAIN list :
        IF module = "dhcp" THEN Upper(list[i].mac) = Upper(d.mac) ELSE SameTuple(list[i], d)}

\* C10: when two invocations of the same identity each had a create stored and
\* acknowledged by the device, both had fetched a list without the rule (both
\* fetched before either created), both report changed = true, and the device
\* holds at least two records of that identity: nothing detects the race.
C10_RaceDuplicates ==
    \A p, q \in Procs :
        (/\ p /= q
         /\ SameIdentity(params[p], params[q])
         /\ StoredAndAcknowledged(p) /\ StoredAndAcknowledged(q))
        => /\ ~Present(fetched[p], params[q]) /\ ~Present(fetched[q], params[p])
           /\ Created(p) /\ Created(q)
           /\ Cardinality(Copies(device, params[p])) >= 2

\* C10 witness: two invocations of the same rule fetched the same list, which
\* the device held at the start, both created, both report changed = true,
\* and the device holds the rule twice.
C10_Witness ==
    \E p, q \in Procs :
        /\ p /= q /\ SameRule(params[p], params[q])
        /\ fetched[p] = fetched[q] /\ Len(device) = Len(fetched[p]) + 2
        /\ Created(p) /\ Created(q) /\ stored[p] /\ stored[q]
        /\ Cardinality(Copies(device, params[p])) = 2

\* The input of p is malformed: a required field is missing, or ip_proto is
\* neither "tcp" nor "udp".
Malformed(p) ==
    IF module = "dhcp"
    THEN ~({"mac", "ip"} \subseteq supplied[p])
    ELSE \/ ~({"lan_ip", "lan_port", "wan_port_start", "wan_port_end", "ip_proto", "enabled"}
                \subseteq supplied[p])
         \/ params[p].ip_proto \notin {tcp, udp}

\* C11: an invocation whose input is malformed never opens a session, lists or
\* creates, and when it ends it ends with a failure; its only step is the
\* rejection.
C11_RejectedBeforeNetwork ==
    \A p \in Procs :
        Malformed(p)
        => /\ calls[p] = <<>> /\ session[p] = "none"
           /\ pc[p] \in {"start", "done"}
           /\ pc[p] = "done" => (Failed(p) /\ raisedAt[p] = "none")

\* C11 witness: a NAT invocation with ip_proto "TCP" ended Failed without a
\* call, next to an invocation that went all the way to its create.
C11_Witness ==
    \E p, q \in Procs :
        /\ module = "nat" /\ params[p].ip_proto = TCP /\ Failed(p) /\ calls[p] = <<>>
        /\ Issued(q, "create")

\* t ends with s.
IsSuffix(s, t) ==
    Len(s) <= Len(t) /\ \A i \in DOMAIN s : s[i] = t[Len(t) - Len(s) + i]

\* C12 as stated: every error raised by open, list or create, and every
\* semantic create failure, is reported as a failure whose message starts with
\* "Error configuring DHCP" (DHCP) or "Error configuring NAT" (NAT) and goes on
\* to the original error's text, unaltered.
C12_ErrorWrapping ==
    \A p \in Procs :
        (pc[p] = "done" /\ raisedAt[p] /= "none")
        => /\ Failed(p)
           /\ IsPrefix(IF module = "dhcp" THEN <<"Error configuring", " DHCP">>
                                          ELSE <<"Error configuring", " NAT">>,
                       result[p].message)
           /\ IsSuffix(exc[p], result[p].message)

\* C12 amended: every error raised by open, list or create, and every
\* semantic create failure, is reported as a failure whose message is
\* "Error configuring static DHCP: " (DHCP) or "Error configuring NAT: " (NAT)
\* followed by the text of the error that was raised, and nothing else.
C12_ErrorWrappingAmended ==
    \A p \in Procs :
        (pc[p] = "done" /\ raisedAt[p] /= "none")
        => /\ Failed(p)
           /\ exc[p] /= <<>>
           /\ result[p].message =
                (IF module = "dhcp" THEN <<"Error configuring", " static", " DHCP", ": ">>
                                    ELSE <<"Error configuring", " NAT", ": ">>) \o exc[p]

\* C12 witness: a NAT create answered with a device message and no enabled
\* field ended Failed, next to an invocation whose open call raised.
C12_Witness ==
    \E p, q \in Procs :
        /\ module = "nat" /\ Failed(p) /\ raisedAt[p] = "result"
        /\ HasKey(create_result[p], "msg")
        /\ Failed(q) /\ raisedAt[q] = "open"

\* C13: an invocation submits at most one record, exactly one when it issued
\* a create; the record is, for DHCP, exactly {ip, mac} with the input's ip
\* and the input's mac in its original case, and for NAT exactly the eight
\* fields enabled, comment, lan_port, wan_port_start, wan_port_end, lan_ip,
\* ip_proto, src_ip with their input values.
C13_CreatePayload ==
    \A p \in Procs :
        /\ Len(submitted[p]) = (IF Issued(p, "create") THEN 1 ELSE 0)
        /\ \A i \in DOMAIN submitted[p] :
            LET sent == submitted[p][i]
            IN IF module = "dhcp"
               THEN /\ DOMAIN sent = {"ip", "mac"}
                    /\ sent.ip = params[p].ip /\ sent.mac = params[p].mac
               ELSE /\ DOMAIN sent = {"enabled", "comment", "lan_port", "wan_port_start",
                                       "wan_port_end", "lan_ip", "ip_proto", "src_ip"}
                    /\ \A k \in DOMAIN sent : sent[k] = params[p][k]

\* C13 witness: a DHCP invocation with the mixed-case MAC "Aa" submitted its
\* record, which the device stored as sent.
C13_Witness ==
    \E p \in Procs :
        /\ module = "dhcp" /\ params[p].mac = <<"A", "a">> /\ Len(submitted[p]) = 1
        /\ stored[p] /\ \E i \in DOMAIN device : device[i] = submitted[p][1]

\* The orders a list can arrive in.
Perms(list) ==
    LET idx  == 1..Len(list)
        bij  == {f \in [idx -> idx] : \A a, b \in idx : f[a] = f[b] => a = b}
    IN  {[i \in idx |-> list[f[i]]] : f \in bij}

\* The match of the running module on a list, as the code computes it.
Match(list, d) ==
    IF module = "dhcp" THEN found_mac(list, d.mac) ELSE RuleExists(list, d, 1)

\* C14: for the desired rule of an invocation, the match computed on any
\* permutation of the fetched list is the match computed on the list as
\* fetched, and it decides the outcome: a match on any order means Unchanged
\* with no create issued, no match on any order means the invocation goes on
\* to its create.
C14_OrderIndependent ==
    \A p \in Procs :
        Listed(p)
        => \A perm \in Perms(fetched[p]) :
            /\ Match(perm, params[p]) = Match(fetched[p], params[p])
            /\ Match(perm, params[p]) <=> (Unchanged(p) /\ ~Issued(p, "create"))
            /\ ~Match(perm, params[p]) <=> (pc[p] = "nomatch" \/ Issued(p, "create"))

\* C14 witness: a DHCP invocation ended Unchanged on a fetched list of two
\* leases of which only the second has the desired MAC.
C14_Witness ==
    \E p \in Procs :
        /\ module = "dhcp" /\ Unchanged(p) /\ Len(fetched[p]) = 2
        /\ ~MacEquals(fetched[p][1], params[p].mac)
        /\ MacEquals(fetched[p][2], params[p].mac)

\* C15: a step either leaves the device's list as it is, or is the create of
\* an invocation that found no match and appends the one record that
\* invocation submitted, every earlier record staying in place; a step that
\* ends an invocation Unchanged, or Failed without a create, leaves the list
\* as it is.
C15_CreateOnlyFrame ==
    [][/\ \/ device' = device
          \/ \E p \in Procs :
                /\ pc[p] = "nomatch" /\ pc'[p] = "done"
                /\ submitted[p] = <<>> /\ Len(submitted'[p]) = 1
                /\ device' = Append(device, submitted'[p][1])
       /\ \A p \in Procs :
            (pc[p] /= "done" /\ pc'[p] = "done" /\ ~Issued(p, "create")')
            => device' = device]_vars

\* C15 witness: an invocation fetched a non-empty list and created; the
\* device holds the fetched records in place and the submitted one after them.
C15_Witness ==
    \E p \in Procs :
        /\ Created(p) /\ stored[p] /\ Len(fetched[p]) >= 1
        /\ Len(device) > Len(fetched[p]) /\ IsPrefix(fetched[p], device)
        /\ submitted[p][1] \in {device[i] : i \in (Len(fetched[p]) + 1)..Len(device)}

\* The steps invocation p can take.
Steps(p) ==
    \/ DhcpRejects(p) \/ DhcpOpen(p) \/ DhcpOpenRaises(p) \/ DhcpList(p)
    \/ DhcpListRaises(p) \/ DhcpCreate(p) \/ DhcpCreateRaises(p)
    \/ NatRejects(p) \/ NatOpen(p) \/ NatOpenRaises(p) \/ NatList(p)
    \/ NatListRaises(p) \/ NatCreate(p) \/ NatCreateRaises(p)

\* How far an invocation is.
Rank(at) == CASE at = "start" -> 0 [] at = "opened" -> 1 [] at = "nomatch" -> 2 [] at = "done" -> 3

\* An invocation that has not ended can take a step and has reported nothing;
\* one that has ended made exactly one report, an exit_json or a fail_json, and
\* is in exactly one of Unchanged, Created, Failed, the one its report says.
\* The DHCP scan stops at an index within the fetched list, the empty list
\* included.
OneOutcomeOnce ==
    \A p \in Procs :
        /\ pc[p] /= "done" => (ENABLED Steps(p) /\ reports[p] = <<>> /\ reported[p] = "none")
        /\ pc[p] = "done"
           => /\ Len(reports[p]) = 1
              /\ reports[p][1].call \in {"exit_json", "fail_json"}
              /\ reports[p][1].call = reported[p]
              /\ Cardinality({o \in {"Unchanged", "Created", "Failed"} :
                                \/ o = "Unchanged" /\ Unchanged(p)
                                \/ o = "Created" /\ Created(p)
                                \/ o = "Failed" /\ Failed(p)}) = 1
              /\ reports[p][1].call = "exit_json"
                 => reports[p][1].kwargs.changed = result[p].changed
        /\ (module = "dhcp" /\ Listed(p))
           => ScanIndex(fetched[p], params[p].mac, 0) \in 0..Len(fetched[p])

\* Every step is a step of some invocation and moves it forward, so an
\* invocation ends within three steps.
Advances ==
    /\ \E p \in Procs : pc'[p] /= pc[p]
    /\ \A p \in Procs : pc'[p] /= pc[p] => Rank(pc[p]) < Rank(pc'[p])

\* C16: every invocation keeps stepping forward until it ends (each remote
\* call returns or raises), ends in exactly one of Unchanged, Created, Failed,
\* and reports it exactly once; the DHCP scan ends on every fetched list.
C16_TerminatesOnce == [] OneOutcomeOnce /\ [][Advances]_vars

\* C16 witness: a DHCP invocation scanned the empty list and ended Created,
\* another ended Unchanged, each with its one report.
C16_Witness ==
    \E p, q \in Procs :
        /\ module = "dhcp" /\ Listed(p) /\ fetched[p] = <<>> /\ Created(p)
        /\ Unchanged(q) /\ Len(reports[p]) = 1 /\ Len(reports[q]) = 1

\* C17: an invocation run in check mode issues no create request and leaves
\* the device's list as it was: nothing is submitted, nothing is stored.
C17_CheckModeNoCreate ==
    check_mode
    => \A p \in Procs : ~Issued(p, "create") /\ submitted[p] = <<>> /\ ~stored[p]

\* The echo fields of the running module with their seeded values.
SeededEcho ==
    IF module = "dhcp" THEN [mac_address |-> <<>>, ip_address |-> <<>>]
    ELSE [lan_ip |-> <<>>, lan_port |-> 0, wan_port_start |-> 0, wan_port_end |-> 0,
          ip_proto |-> <<>>, src_ip |-> <<>>, enabled |-> FALSE, comment |-> <<>>]

\* The echo fields of the running module with the input's values.
InputEcho(d) ==
    IF module = "dhcp" THEN [mac_address |-> d.mac, ip_address |-> d.ip]
    ELSE [lan_ip |-> d.lan_ip, lan_port |-> d.lan_port,
          wan_port_start |-> d.wan_port_start, wan_port_end |-> d.wan_port_end,
          ip_proto |-> d.ip_proto, src_ip |-> d.src_ip, enabled |-> d.enabled,
          comment |-> d.comment]

\* The reported dict carries the fields of echo with echo's values.
Carries(kwargs, echo) ==
    \A k \in DOMAIN echo : HasKey(kwargs, k) /\ kwargs[k] = echo[k]

\* A successful invocation reports changed = the reconciler's return value
\* (FALSE after a match, TRUE after an acknowledged create) and every echo
\* field with the input's value.
SuccessShape(p) ==
    (Unchanged(p) \/ Created(p))
    => LET kwargs == reports[p][1].kwargs
       IN /\ HasKey(kwargs, "changed")
          /\ kwargs.changed = (Answered(p) /\ Acknowledges(create_result[p]))
          /\ kwargs.changed = ~Match(fetched[p], params[p])
          /\ Carries(kwargs, InputEcho(params[p]))

\* The reported dict says changed = false and has the echo fields seeded.
FailureShape(kwargs) ==
    /\ HasKey(kwargs, "changed") /\ kwargs.changed = FALSE
    /\ Carries(kwargs, SeededEcho)

====
